---- MODULE Spec2Model ----
(***************************************************************************)
(* The commit-subject rewriting engine of CodeMaster's history clean-up    *)
(* scripts: batch_rewrite.py, msg_filter.py and rewrite_messages.py.       *)
(* A subject line is a sequence of one-character strings; the regular      *)
(* expressions and string methods of the scripts are operators on such     *)
(* sequences, each computed the way Python's re and str compute it.        *)
(***************************************************************************)
EXTENDS Integers, Sequences, FiniteSets

VARIABLES orig, subject, fn, round, ret

\* the batch driver: the commit range, the lines of git log's output, the
\* position of the loop in them, the list process_batch builds, what main
\* prints from it, and where the driver stands
VARIABLES commits, lines, pos, rewrites, report, pc

driver == <<commits, lines, pos, rewrites, report, pc>>

vars == <<orig, subject, fn, round, ret, driver>>

\* Largest number of body fragments appended to a head to build a subject.
MaxBody == 2

(***************************************************************************)
(* Characters and the str / re primitives the scripts use.                 *)
(***************************************************************************)
LowerMap ==
  [c \in {"A","B","C","D","E","F","G","H","I","J","K","L","M",
          "N","O","P","Q","R","S","T","U","V","W","X","Y","Z"} |->
     CASE c = "A" -> "a" [] c = "B" -> "b" [] c = "C" -> "c" [] c = "D" -> "d"
       [] c = "E" -> "e" [] c = "F" -> "f" [] c = "G" -> "g" [] c = "H" -> "h"
       [] c = "I" -> "i" [] c = "J" -> "j" [] c = "K" -> "k" [] c = "L" -> "l"
       [] c = "M" -> "m" [] c = "N" -> "n" [] c = "O" -> "o" [] c = "P" -> "p"
       [] c = "Q" -> "q" [] c = "R" -> "r" [] c = "S" -> "s" [] c = "T" -> "t"
       [] c = "U" -> "u" [] c = "V" -> "v" [] c = "W" -> "w" [] c = "X" -> "x"
       [] c = "Y" -> "y" [] c = "Z" -> "z"]

\* \d
Digit == {"0","1","2","3","4","5","6","7","8","9"}

\* \w
WordChar ==
  Digit \cup DOMAIN LowerMap \cup {LowerMap[c] : c \in DOMAIN LowerMap} \cup {"_"}

\* str.lower()
Lower(s) == [i \in 1..Len(s) |-> IF s[i] \in DOMAIN LowerMap THEN LowerMap[s[i]] ELSE s[i]]

\* the literal lit stands in s at position i
LitAt(s, i, lit) ==
  /\ i >= 1
  /\ i + Len(lit) - 1 <= Len(s)
  /\ \A k \in 1..Len(lit) : s[i + k - 1] = lit[k]

\* str.startswith
StartsWith(s, p) == LitAt(s, 1, p)

\* str.endswith
EndsWith(s, p) == LitAt(s, Len(s) - Len(p) + 1, p)

\* p in s
Contains(s, p) == \E i \in 1..(Len(s) - Len(p) + 1) : LitAt(s, i, p)

\* s[i:] with the 1-based position i of the first kept character
From(s, i) == SubSeq(s, i, Len(s))

Min(S) == CHOOSE x \in S : \A y \in S : x <= y

Max(S) == CHOOSE x \in S : \A y \in S : x >= y

\* end of the greedy run Class+ starting at i (i - 1 when the run is empty)
RunEnd(s, i, Class) ==
  LET stop == {k \in i..Len(s) : s[k] \notin Class}
  IN  IF stop = {} THEN Len(s) ELSE Min(stop) - 1

\* position of the first c at or after i, 0 when there is none
IndexFrom(s, i, c) ==
  LET at == {k \in i..Len(s) : k >= 1 /\ s[k] = c}
  IN  IF at = {} THEN 0 ELSE Min(at)

\* position of the last c at or after i, 0 when there is none
LastIndexFrom(s, i, c) ==
  LET at == {k \in i..Len(s) : k >= 1 /\ s[k] = c}
  IN  IF at = {} THEN 0 ELSE Max(at)

\* end of ' (batch \d+' matched at i, 0 when it does not match
BatchNumEnd(s, i) ==
  IF ~LitAt(s, i, <<"(","b","a","t","c","h"," ">>) THEN 0  \* '(batch '
  ELSE LET d == RunEnd(s, i + 7, Digit)
       IN  IF d >= i + 7 THEN d ELSE 0

\* end of '\(batch \d+/\d+\)' matched at i, 0 when it does not match
BatchOfEnd(s, i) ==
  LET d1 == BatchNumEnd(s, i)
  IN  IF d1 = 0 \/ ~LitAt(s, d1 + 1, <<"/">>) THEN 0  \* '/'
      ELSE LET d2 == RunEnd(s, d1 + 2, Digit)
           IN  IF d2 >= d1 + 2 /\ LitAt(s, d2 + 1, <<")">>) THEN d2 + 1 ELSE 0  \* ')'

(***************************************************************************)
(* The regular expressions handed to re.sub, by name.  MatchEnd is the     *)
(* position of the last character of the match of pattern pat that begins  *)
(* at position i of s, and 0 when pat does not match there.  No pattern    *)
(* matches the empty string.                                               *)
(***************************************************************************)
MatchEnd(pat, s, i) ==
  CASE pat = "batch_of" ->        \* r' \(batch \d+/\d+\)'
         IF LitAt(s, i, <<" ">>) THEN BatchOfEnd(s, i + 1) ELSE 0  \* ' '
    [] pat = "batch_n_lazy" ->    \* r' \(batch \d+/n.*?\)'
         IF ~LitAt(s, i, <<" ">>) THEN 0  \* ' '
         ELSE LET d == BatchNumEnd(s, i + 1)
              IN  IF d = 0 \/ ~LitAt(s, d + 1, <<"/","n">>) THEN 0  \* '/n'
                  ELSE IndexFrom(s, d + 3, ")")
    [] pat = "batch_n_greedy" ->  \* r' \(batch \d+/n.*\)'
         IF ~LitAt(s, i, <<" ">>) THEN 0  \* ' '
         ELSE LET d == BatchNumEnd(s, i + 1)
              IN  IF d = 0 \/ ~LitAt(s, d + 1, <<"/","n">>) THEN 0  \* '/n'
                  ELSE LastIndexFrom(s, d + 3, ")")
    [] pat = "dash_phase" ->      \* r' - Phase \d+.*$'
         IF LitAt(s, i, <<" ","-"," ","P","h","a","s","e"," ">>) /\ RunEnd(s, i + 9, Digit) >= i + 9  \* ' - Phase '
         THEN Len(s) ELSE 0
    [] pat = "paren_phase" ->     \* r' \(Phase \d+\)'
         IF ~LitAt(s, i, <<" ","(","P","h","a","s","e"," ">>) THEN 0  \* ' (Phase '
         ELSE LET d == RunEnd(s, i + 8, Digit)
              IN  IF d >= i + 8 /\ LitAt(s, d + 1, <<")">>) THEN d + 1 ELSE 0  \* ')'
    [] pat = "reduce_complexity" ->  \* r'reduce complexity in (\w+)'
         IF ~LitAt(s, i, <<"r","e","d","u","c","e"," ","c","o","m","p","l","e","x","i","t","y"," ","i","n"," ">>) THEN 0  \* 'reduce complexity in '
         ELSE LET w == RunEnd(s, i + 21, WordChar)
              IN  IF w >= i + 21 THEN w ELSE 0
    [] OTHER -> 0

\* re.sub(pat, repl, s): the leftmost non-overlapping matches, left to right
RECURSIVE SubFrom(_, _, _, _)
SubFrom(pat, repl, s, i) ==
  IF i > Len(s) THEN <<>>
  ELSE LET e == MatchEnd(pat, s, i)
       IN  IF e = 0 THEN <<s[i]>> \o SubFrom(pat, repl, s, i + 1)
           ELSE repl \o SubFrom(pat, repl, s, e + 1)

ReSub(pat, repl, s) == SubFrom(pat, repl, s, 1)

\* re.search(pat, s): position where the leftmost match begins, 0 for None
ReSearch(pat, s) ==
  LET at == {i \in 1..Len(s) : MatchEnd(pat, s, i) > 0}
  IN  IF at = {} THEN 0 ELSE Min(at)

\* str.replace(old, new): every non-overlapping occurrence, left to right
RECURSIVE ReplaceFrom(_, _, _, _)
ReplaceFrom(s, old, new, i) ==
  IF i > Len(s) THEN <<>>
  ELSE IF LitAt(s, i, old) THEN new \o ReplaceFrom(s, old, new, i + Len(old))
       ELSE <<s[i]>> \o ReplaceFrom(s, old, new, i + 1)

Replace(s, old, new) == ReplaceFrom(s, old, new, 1)

(***************************************************************************)
(* What a call returns: the subject (new), batch_rewrite's flag (changed;  *)
(* FALSE for the scripts that return no flag), whether the value is        *)
(* Python's None, and whether the call raised instead of returning.        *)
(***************************************************************************)
Ret(new, changed) == [new |-> new, changed |-> changed, none |-> FALSE, raised |-> FALSE]

RetNone == [new |-> <<>>, changed |-> FALSE, none |-> TRUE, raised |-> FALSE]

RetRaised == [new |-> <<>>, changed |-> FALSE, none |-> FALSE, raised |-> TRUE]

NoRet == [new |-> <<>>, changed |-> FALSE, none |-> FALSE, raised |-> FALSE]

\* the alternation (feat|fix|docs|refactor|test|chore|perf)
PrimaryTypes == {<<"f","e","a","t">>, <<"f","i","x">>, <<"d","o","c","s">>, <<"r","e","f","a","c","t","o","r">>, <<"t","e","s","t">>, <<"c","h","o","r","e">>, <<"p","e","r","f">>}  \* 'feat', 'fix', 'docs', 'refactor', 'test', 'chore', 'perf'

\* re.match(r'^(<types>)\([^)]+\):', msg) is not None
HasScope(types, msg) ==
  \E t \in types :
    /\ StartsWith(msg, t \o <<"(">>)  \* '('
    /\ LET close == IndexFrom(msg, Len(t) + 2, ")")
       IN  close > Len(t) + 2 /\ LitAt(msg, close + 1, <<":">>)  \* ':'

\* re.match(r'^(<types>): (.+)', msg): group 1, or <<>> when there is no match
TypeOf(types, msg) ==
  LET hit == {t \in types : StartsWith(msg, t \o <<":"," ">>) /\ Len(msg) > Len(t) + 2}  \* ': '
  IN  IF hit = {} THEN <<>> ELSE CHOOSE t \in hit : TRUE

\* group 2 of the same match
DescriptionOf(types, msg) == From(msg, Len(TypeOf(types, msg)) + 3)

(***************************************************************************)
(* batch_rewrite.py                                                        *)
(***************************************************************************)
batch_get_scope_from_message(msg) ==
  LET msg_lower == Lower(msg) IN
  IF Contains(msg, <<"t","e","s","t">>) \/ Contains(msg_lower, <<"j","e","s","t">>) \/ Contains(msg_lower, <<"m","o","c","k">>)  \* 'test', 'jest', 'mock'
  THEN IF Contains(msg_lower, <<"m","o","c","k">>) THEN <<"t","e","s","t","-","m","o","c","k">> ELSE <<"t","e","s","t">>  \* 'mock', 'test-mock', 'test'
  ELSE IF Contains(msg_lower, <<"s","e","s","s","i","o","n">>) THEN <<"s","e","s","s","i","o","n">>  \* 'session', 'session'
  ELSE IF Contains(msg_lower, <<"p","r","o","b","l","e","m">>) THEN <<"p","r","o","b","l","e","m">>  \* 'problem', 'problem'
  ELSE IF Contains(msg_lower, <<"b","a","c","k","g","r","o","u","n","d">>) \/ Contains(msg_lower, <<"h","a","n","d","l","e","r">>) THEN <<"b","a","c","k","g","r","o","u","n","d">>  \* 'background', 'handler', 'background'
  ELSE IF Contains(msg_lower, <<"l","i","n","t">>) \/ Contains(msg_lower, <<"e","s","l","i","n","t">>) THEN <<"l","i","n","t">>  \* 'lint', 'eslint', 'lint'
  ELSE IF Contains(msg_lower, <<"d","a","t","a","b","a","s","e">>) \/ Contains(msg_lower, <<"i","n","d","e","x","e","d","d","b">>)  \* 'database', 'indexeddb'
          \/ Contains(msg_lower, <<"d","b">>) THEN <<"d","a","t","a","b","a","s","e">>  \* 'db', 'database'
  ELSE IF Contains(msg_lower, <<"u","i">>) \/ Contains(msg_lower, <<"c","o","m","p","o","n","e","n","t">>)  \* 'ui', 'component'
          \/ Contains(msg_lower, <<"c","s","s">>) THEN <<"u","i">>  \* 'css', 'ui'
  ELSE IF Contains(msg_lower, <<"a","n","a","l","y","t","i","c","s">>) \/ Contains(msg_lower, <<"d","a","s","h","b","o","a","r","d">>) THEN <<"d","a","s","h","b","o","a","r","d">>  \* 'analytics', 'dashboard', 'dashboard'
  ELSE IF Contains(msg_lower, <<"h","i","n","t">>) THEN <<"h","i","n","t">>  \* 'hint', 'hint'
  ELSE IF Contains(msg_lower, <<"m","a","n","i","f","e","s","t">>) THEN <<"m","a","n","i","f","e","s","t">>  \* 'manifest', 'manifest'
  ELSE IF Contains(msg_lower, <<"o","n","b","o","a","r","d","i","n","g">>) THEN <<"o","n","b","o","a","r","d","i","n","g">>  \* 'onboarding', 'onboarding'
  ELSE IF Contains(msg_lower, <<"c","i">>) \/ Contains(msg_lower, <<"w","o","r","k","f","l","o","w">>) THEN <<"c","i">>  \* 'ci', 'workflow', 'ci'
  ELSE IF Contains(msg_lower, <<"d","o","c">>) \/ Contains(msg_lower, <<"r","e","a","d","m","e">>) THEN <<"d","o","c","s">>  \* 'doc', 'readme', 'docs'
  ELSE <<"c","o","r","e">>  \* 'core'

\* lines 64-65 with the markers of an already scoped subject cleaned as well
batch_already_scoped_cleaned(msg) ==
  LET d1 == ReSub("batch_of", <<>>, msg)
      d2 == ReSub("batch_n_lazy", <<>>, d1)
      d3 == ReSub("dash_phase", <<>>, d2)
      d4 == ReSub("paren_phase", <<>>, d3)
  IN  Ret(d4, d4 # msg)

\* lines 64-65: already has a proper scope
batch_already_scoped(msg) == Ret(msg, FALSE)

\* line 68 with 'WIP:' in msg for msg.startswith('WIP:')
batch_is_wip_anywhere(msg) == Contains(msg, <<"W","I","P",":">>)  \* 'WIP:'

\* line 68: the subject is a WIP commit
batch_is_wip(msg) == StartsWith(msg, <<"W","I","P",":">>)  \* 'WIP:'

\* lines 68-69 with the flag left False
batch_wip_unflagged(msg) == Ret(<<"#"," ","S","Q","U","A","S","H"," ","T","H","I","S",":"," ">> \o msg, FALSE)  \* '# SQUASH THIS: '

\* lines 68-69: WIP commits are marked for squashing
batch_wip(msg) == Ret(<<"#"," ","S","Q","U","A","S","H"," ","T","H","I","S",":"," ">> \o msg, TRUE)  \* '# SQUASH THIS: '

\* lines 72-75 with the scope left out of the new prefix
batch_checkpoint_unscoped(msg) == Ret(Replace(msg, <<"c","h","e","c","k","p","o","i","n","t",":">>, <<"c","h","o","r","e",":">>), TRUE)  \* 'checkpoint:', 'chore:'

\* lines 72-75: checkpoint commits
batch_checkpoint(msg) ==
  LET scope == batch_get_scope_from_message(msg)
  IN  Ret(Replace(msg, <<"c","h","e","c","k","p","o","i","n","t",":">>, <<"c","h","o","r","e","(">> \o scope \o <<")",":">>), TRUE)  \* 'checkpoint:', 'chore(', '):'

\* lines 78-79: merge commits are kept as they are
batch_merge(msg) == Ret(msg, FALSE)

\* lines 83-85: not a conventional commit at all
batch_unrecognized(msg) == Ret(msg, FALSE)

\* lines 93-96: remove batch/phase markers
batch_strip_markers(description) ==
  LET d1 == ReSub("batch_of", <<>>, description)
      d2 == ReSub("batch_n_lazy", <<>>, d1)
      d3 == ReSub("dash_phase", <<>>, d2)
  IN  ReSub("paren_phase", <<>>, d3)

\* lines 99-104: simplify repetitive descriptions; the result is
\* [text, raised], raised when .group(1) is taken of a failed search
batch_simplify(description) ==
  LET d1 == IF Contains(description, <<"e","x","t","r","a","c","t"," ","h","e","l","p","e","r","s"," ","f","r","o","m"," ","b","a","c","k","g","r","o","u","n","d","/","i","n","d","e","x",".","j","s">>)  \* 'extract helpers from background/index.js'
            THEN <<"e","x","t","r","a","c","t"," ","m","e","s","s","a","g","e"," ","r","o","u","t","i","n","g"," ","h","e","l","p","e","r","s">> ELSE description  \* 'extract message routing helpers'
  IN  IF MatchEnd("reduce_complexity", d1, 1) > 0
      THEN LET at == ReSearch("reduce_complexity", d1)
           IN  IF at = 0 THEN [text |-> d1, raised |-> TRUE]
               ELSE [text |-> <<"r","e","d","u","c","e"," ","c","o","m","p","l","e","x","i","t","y"," ","i","n"," ">>  \* 'reduce complexity in '
                              \o SubSeq(d1, at + 21, MatchEnd("reduce_complexity", d1, at)),
                     raised |-> FALSE]
      ELSE [text |-> d1, raised |-> FALSE]

\* lines 92-104: the noise stripper
batch_strip_noise(description) == batch_simplify(batch_strip_markers(description))

\* line 109: the flag of the path that builds a new message
batch_changed(new_msg, original) == new_msg # original

\* lines 87-109 with the scope taken after the markers are removed
batch_typed_scope_after_strip(msg) ==
  LET original    == msg
      commit_type == TypeOf(PrimaryTypes, msg)
      description == DescriptionOf(PrimaryTypes, msg)
      stripped    == batch_strip_noise(description)
      scope       == batch_get_scope_from_message(stripped.text)
      new_msg     == commit_type \o <<"(">> \o scope \o <<")",":"," ">> \o stripped.text  \* '(', '): '
  IN  IF stripped.raised THEN RetRaised
      ELSE Ret(new_msg, batch_changed(new_msg, original))

\* lines 87-109 with the scope taken from the whole subject
batch_typed_scope_from_subject(msg) ==
  LET original    == msg
      commit_type == TypeOf(PrimaryTypes, msg)
      description == DescriptionOf(PrimaryTypes, msg)
      scope       == batch_get_scope_from_message(msg)
      stripped    == batch_strip_noise(description)
      new_msg     == commit_type \o <<"(">> \o scope \o <<")",":"," ">> \o stripped.text  \* '(', '): '
  IN  IF stripped.raised THEN RetRaised
      ELSE Ret(new_msg, batch_changed(new_msg, original))

\* lines 87-109: 'type: description'
batch_typed(msg) ==
  LET original    == msg
      commit_type == TypeOf(PrimaryTypes, msg)
      description == DescriptionOf(PrimaryTypes, msg)
      scope       == batch_get_scope_from_message(description)
      stripped    == batch_strip_noise(description)
      new_msg     == commit_type \o <<"(">> \o scope \o <<")",":"," ">> \o stripped.text  \* '(', '): '
  IN  IF stripped.raised THEN RetRaised
      ELSE Ret(new_msg, batch_changed(new_msg, original))

batch_rewrite_message(msg) ==
  IF HasScope(PrimaryTypes, msg) THEN batch_already_scoped(msg)
  ELSE IF batch_is_wip(msg) THEN batch_wip(msg)
  ELSE IF StartsWith(msg, <<"c","h","e","c","k","p","o","i","n","t",":">>) THEN batch_checkpoint(msg)  \* 'checkpoint:'
  ELSE IF StartsWith(msg, <<"M","e","r","g","e"," ","p","u","l","l"," ","r","e","q","u","e","s","t">>) \/ StartsWith(msg, <<"M","e","r","g","e"," ","b","r","a","n","c","h">>)  \* 'Merge pull request', 'Merge branch'
       THEN batch_merge(msg)
  ELSE IF TypeOf(PrimaryTypes, msg) = <<>> THEN batch_unrecognized(msg)
  ELSE batch_typed(msg)

(***************************************************************************)
(* msg_filter.py                                                           *)
(***************************************************************************)
filter_get_scope_from_message(msg) ==
  LET msg_lower == Lower(msg) IN
  IF Contains(msg, <<"t","e","s","t">>) \/ Contains(msg_lower, <<"j","e","s","t">>) \/ Contains(msg_lower, <<"m","o","c","k">>)  \* 'test', 'jest', 'mock'
  THEN <<"t","e","s","t">>  \* 'test'
  ELSE IF Contains(msg_lower, <<"s","e","s","s","i","o","n">>) THEN <<"s","e","s","s","i","o","n">>  \* 'session', 'session'
  ELSE IF Contains(msg_lower, <<"p","r","o","b","l","e","m">>) THEN <<"p","r","o","b","l","e","m">>  \* 'problem', 'problem'
  ELSE IF Contains(msg_lower, <<"b","a","c","k","g","r","o","u","n","d">>) \/ Contains(msg_lower, <<"h","a","n","d","l","e","r">>) THEN <<"b","a","c","k","g","r","o","u","n","d">>  \* 'background', 'handler', 'background'
  ELSE IF Contains(msg_lower, <<"l","i","n","t">>) \/ Contains(msg_lower, <<"e","s","l","i","n","t">>) THEN <<"l","i","n","t">>  \* 'lint', 'eslint', 'lint'
  ELSE IF Contains(msg_lower, <<"d","a","t","a","b","a","s","e">>) \/ Contains(msg_lower, <<"d","b">>) THEN <<"d","a","t","a","b","a","s","e">>  \* 'database', 'db', 'database'
  ELSE IF Contains(msg_lower, <<"u","i">>) \/ Contains(msg_lower, <<"c","o","m","p","o","n","e","n","t">>) THEN <<"u","i">>  \* 'ui', 'component', 'ui'
  ELSE IF Contains(msg_lower, <<"d","a","s","h","b","o","a","r","d">>) \/ Contains(msg_lower, <<"a","n","a","l","y","t","i","c","s">>) THEN <<"d","a","s","h","b","o","a","r","d">>  \* 'dashboard', 'analytics', 'dashboard'
  ELSE IF Contains(msg_lower, <<"h","i","n","t">>) THEN <<"h","i","n","t">>  \* 'hint', 'hint'
  ELSE IF Contains(msg_lower, <<"m","a","n","i","f","e","s","t">>) THEN <<"m","a","n","i","f","e","s","t">>  \* 'manifest', 'manifest'
  ELSE IF Contains(msg_lower, <<"o","n","b","o","a","r","d","i","n","g">>) THEN <<"o","n","b","o","a","r","d","i","n","g">>  \* 'onboarding', 'onboarding'
  ELSE IF Contains(msg_lower, <<"c","i">>) \/ Contains(msg_lower, <<"w","o","r","k","f","l","o","w">>) THEN <<"c","i">>  \* 'ci', 'workflow', 'ci'
  ELSE IF Contains(msg_lower, <<"d","o","c">>) THEN <<"d","o","c","s">>  \* 'doc', 'docs'
  ELSE <<"c","o","r","e">>  \* 'core'

\* the alternation of line 41
FilterTypes == PrimaryTypes \cup {<<"r","e","v","e","r","t">>, <<"d","e","b","u","g">>, <<"c","i">>}  \* 'revert', 'debug', 'ci'

\* the prefixes of line 68, in the order the loop tries them
BarePrefixes == <<<<"d","e","b","u","g",":">>, <<"r","e","v","e","r","t",":">>, <<"c","i",":">>>>  \* 'debug:', 'revert:', 'ci:'

\* the characters str.strip() removes
Whitespace == {" ", "\n", "\t"}

\* str.strip(): leading and trailing whitespace removed
Strip(s) ==
  LET lead  == RunEnd(s, 1, Whitespace)
      trail == Min({k \in 1..(Len(s) + 1) : \A j \in k..Len(s) : s[j] \in Whitespace})
  IN  IF lead = Len(s) THEN <<>> ELSE SubSeq(s, lead + 1, trail - 1)

\* lines 49-53: Revert "..." commits
filter_revert(msg) ==
  LET inner == IF EndsWith(msg, <<"\"">>) THEN SubSeq(msg, 9, Len(msg) - 1) ELSE From(msg, 9)  \* '"'
      scope == filter_get_scope_from_message(inner)
  IN  <<"r","e","v","e","r","t","(">> \o scope \o <<")",":"," ">> \o From(msg, 9)  \* 'revert(', '): '

\* lines 56-60: WIP commits become chore commits
filter_wip(msg) ==
  LET description == Strip(From(msg, 5))
      scope       == filter_get_scope_from_message(description)
  IN  <<"c","h","o","r","e","(">> \o scope \o <<")",":"," ">> \o description  \* 'chore(', '): '

\* lines 63-65: checkpoint commits
filter_checkpoint(msg) ==
  LET scope == filter_get_scope_from_message(msg)
  IN  Replace(msg, <<"c","h","e","c","k","p","o","i","n","t",":">>, <<"c","h","o","r","e","(">> \o scope \o <<")",":">>)  \* 'checkpoint:', 'chore(', '):'

\* lines 69-73: a debug:, revert: or ci: subject without a scope
filter_bare(msg, prefix) ==
  LET description == Strip(From(msg, Len(prefix) + 1))
      scope       == filter_get_scope_from_message(description)
      commit_type == SubSeq(prefix, 1, Len(prefix) - 1)
  IN  commit_type \o <<"(">> \o scope \o <<")",":"," ">> \o description  \* '(', '): '

\* lines 84-90: clean up the description
filter_strip_noise(description) ==
  LET d1 == ReSub("batch_of", <<>>, description)
      d2 == ReSub("batch_n_lazy", <<>>, d1)
      d3 == ReSub("dash_phase", <<>>, d2)
      d4 == ReSub("paren_phase", <<>>, d3)
  IN  IF Contains(d4, <<"e","x","t","r","a","c","t"," ","h","e","l","p","e","r","s"," ","f","r","o","m"," ","b","a","c","k","g","r","o","u","n","d","/","i","n","d","e","x",".","j","s">>)  \* 'extract helpers from background/index.js'
      THEN <<"e","x","t","r","a","c","t"," ","m","e","s","s","a","g","e"," ","r","o","u","t","i","n","g"," ","h","e","l","p","e","r","s">> ELSE d4  \* 'extract message routing helpers'

\* lines 80-92: 'type: description'
filter_typed(msg) ==
  LET commit_type == TypeOf(PrimaryTypes, msg)
      description == DescriptionOf(PrimaryTypes, msg)
      scope       == filter_get_scope_from_message(description)
  IN  commit_type \o <<"(">> \o scope \o <<")",":"," ">> \o filter_strip_noise(description)  \* '(', '): '

\* line 41: the subject already has a proper scope
filter_is_scoped(msg) == HasScope(FilterTypes, msg)

\* line 45: a merge commit
filter_is_merge(msg) == StartsWith(msg, <<"M","e","r","g","e">>)  \* 'Merge'

\* line 49: a Revert "..." commit
filter_is_revert(msg) == StartsWith(msg, <<"R","e","v","e","r","t"," ","\"">>)  \* 'Revert "'

\* line 56 with 'WIP:' in msg for msg.startswith('WIP:')
filter_is_wip_anywhere(msg) == Contains(msg, <<"W","I","P",":">>)  \* 'WIP:'

\* line 56: a WIP commit
filter_is_wip(msg) == StartsWith(msg, <<"W","I","P",":">>)  \* 'WIP:'

\* line 63: a checkpoint commit
filter_is_checkpoint(msg) == StartsWith(msg, <<"c","h","e","c","k","p","o","i","n","t",":">>)  \* 'checkpoint:'

\* lines 68-69: the prefixes of BarePrefixes the subject starts with
filter_bare_hits(msg) == {k \in 1..Len(BarePrefixes) : StartsWith(msg, BarePrefixes[k])}

\* lines 76-77: 'type: description' for a primary type
filter_is_typed(msg) == TypeOf(PrimaryTypes, msg) # <<>>

filter_rewrite_message(msg) ==
  IF filter_is_scoped(msg) THEN Ret(msg, FALSE)
  ELSE IF filter_is_merge(msg) THEN Ret(msg, FALSE)
  ELSE IF filter_is_revert(msg) THEN Ret(filter_revert(msg), FALSE)
  ELSE IF filter_is_wip(msg) THEN Ret(filter_wip(msg), FALSE)
  ELSE IF filter_is_checkpoint(msg) THEN Ret(filter_checkpoint(msg), FALSE)
  ELSE IF filter_bare_hits(msg) # {}
       THEN Ret(filter_bare(msg, BarePrefixes[Min(filter_bare_hits(msg))]), FALSE)
  ELSE IF ~filter_is_typed(msg) THEN Ret(msg, FALSE)
  ELSE Ret(filter_typed(msg), FALSE)

(***************************************************************************)
(* rewrite_messages.py                                                     *)
(***************************************************************************)
\* the alternation of line 14
MessagesTypes == {<<"f","e","a","t">>, <<"f","i","x">>, <<"d","o","c","s">>, <<"r","e","f","a","c","t","o","r">>, <<"t","e","s","t">>, <<"c","h","o","r","e">>}  \* 'feat', 'fix', 'docs', 'refactor', 'test', 'chore'

\* end of the match at i of lit (\w+) \(batch \d+/\d+\), 0 when there is none
WordBatchEnd(s, i, lit) ==
  IF ~LitAt(s, i, lit) THEN 0
  ELSE LET w == RunEnd(s, i + Len(lit), WordChar)
       IN  IF w >= i + Len(lit) /\ LitAt(s, w + 1, <<" ">>) THEN BatchOfEnd(s, w + 2) ELSE 0  \* ' '

\* the patterns of lines 18-40, matched at position i of s
MessagesMatchEnd(pat, s, i) ==
  CASE pat = "extract" ->
         \* r'refactor: extract helpers from background/index\.js \(batch \d+/n\)'
         LET lit == <<"r","e","f","a","c","t","o","r",":"," ","e","x","t","r","a","c","t"," ","h","e","l","p","e","r","s"," ","f","r","o","m"," ","b","a","c","k","g","r","o","u","n","d","/","i","n","d","e","x",".","j","s"," ">> IN  \* 'refactor: extract helpers from background/index.js '
         IF ~LitAt(s, i, lit) THEN 0
         ELSE LET d == BatchNumEnd(s, i + Len(lit))
              IN  IF d > 0 /\ LitAt(s, d + 1, <<"/","n",")">>) THEN d + 3 ELSE 0  \* '/n)'
    [] pat = "complexity" ->
         \* r'refactor: reduce complexity in (\w+) \(batch \d+/\d+\)'
         WordBatchEnd(s, i, <<"r","e","f","a","c","t","o","r",":"," ","r","e","d","u","c","e"," ","c","o","m","p","l","e","x","i","t","y"," ","i","n"," ">>)  \* 'refactor: reduce complexity in '
    [] pat = "max_depth" ->
         \* r'refactor: reduce max-depth in (\w+) \(batch \d+/\d+\)'
         WordBatchEnd(s, i, <<"r","e","f","a","c","t","o","r",":"," ","r","e","d","u","c","e"," ","m","a","x","-","d","e","p","t","h"," ","i","n"," ">>)  \* 'refactor: reduce max-depth in '
    [] pat = "max_depth_warnings" ->
         \* r'refactor: reduce max-depth warnings in test functions \(batch \d+/\d+\)'
         LET lit == <<"r","e","f","a","c","t","o","r",":"," ","r","e","d","u","c","e"," ","m","a","x","-","d","e","p","t","h"," ","w","a","r","n","i","n","g","s"," ","i","n"," ","t","e","s","t"," ","f","u","n","c","t","i","o","n","s"," ">> IN  \* 'refactor: reduce max-depth warnings in test functions '
         IF LitAt(s, i, lit) THEN BatchOfEnd(s, i + Len(lit)) ELSE 0
    [] OTHER -> 0

\* the replacement of the match of pat at i, \1 expanded
MessagesRepl(pat, s, i) ==
  CASE pat = "extract" -> <<"r","e","f","a","c","t","o","r","(","b","a","c","k","g","r","o","u","n","d",")",":"," ","e","x","t","r","a","c","t"," ","m","e","s","s","a","g","e"," ","r","o","u","t","i","n","g"," ","h","e","l","p","e","r","s">>  \* 'refactor(background): extract message routing helpers'
    [] pat = "complexity" ->
         <<"r","e","f","a","c","t","o","r","(","t","e","s","t",")",":"," ","r","e","d","u","c","e"," ","c","o","m","p","l","e","x","i","t","y"," ","i","n"," ">>  \* 'refactor(test): reduce complexity in '
           \o SubSeq(s, i + 31, RunEnd(s, i + 31, WordChar))
    [] pat = "max_depth" ->
         <<"r","e","f","a","c","t","o","r","(","t","e","s","t",")",":"," ","r","e","d","u","c","e"," ","m","a","x","-","d","e","p","t","h"," ","i","n"," ">>  \* 'refactor(test): reduce max-depth in '
           \o SubSeq(s, i + 30, RunEnd(s, i + 30, WordChar))
    [] pat = "max_depth_warnings" ->
         <<"r","e","f","a","c","t","o","r","(","t","e","s","t",")",":"," ","r","e","d","u","c","e"," ","m","a","x","-","d","e","p","t","h"," ","w","a","r","n","i","n","g","s"," ","i","n"," ","t","e","s","t"," ","f","u","n","c","t","i","o","n","s">>  \* 'refactor(test): reduce max-depth warnings in test functions'
    [] OTHER -> <<>>

\* re.sub for the patterns of lines 18-40
RECURSIVE MessagesSubFrom(_, _, _)
MessagesSubFrom(pat, s, i) ==
  IF i > Len(s) THEN <<>>
  ELSE LET e == MessagesMatchEnd(pat, s, i)
       IN  IF e = 0 THEN <<s[i]>> \o MessagesSubFrom(pat, s, i + 1)
           ELSE MessagesRepl(pat, s, i) \o MessagesSubFrom(pat, s, e + 1)

\* re.sub(r'^old', new, s) for a literal old
SubPrefix(old, new, s) == IF StartsWith(s, old) THEN new \o From(s, Len(old) + 1) ELSE s

\* lines 18-40: remove batch numbers from refactor messages
messages_refactor(msg) ==
  LET m1 == MessagesSubFrom("extract", msg, 1)
      m2 == MessagesSubFrom("complexity", m1, 1)
      m3 == MessagesSubFrom("max_depth", m2, 1)
  IN  MessagesSubFrom("max_depth_warnings", m3, 1)

\* lines 43-44
messages_checkpoint(msg) ==
  IF StartsWith(msg, <<"c","h","e","c","k","p","o","i","n","t",":">>) THEN SubPrefix(<<"c","h","e","c","k","p","o","i","n","t",":">>, <<"c","h","o","r","e","(","l","i","n","t",")",":">>, msg) ELSE msg  \* 'checkpoint:', 'checkpoint:', 'chore(lint):'

\* lines 50-53
messages_test(msg) ==
  IF StartsWith(msg, <<"t","e","s","t",":"," ">>)  \* 'test: '
  THEN SubPrefix(<<"t","e","s","t",":"," ","a","d","d">>, <<"t","e","s","t","(","u","n","i","t",")",":"," ","a","d","d">>,  \* 'test: add', 'test(unit): add'
         SubPrefix(<<"t","e","s","t",":"," ","f","i","x">>, <<"t","e","s","t","(","f","i","x",")",":"," ","f","i","x">>,  \* 'test: fix', 'test(fix): fix'
           SubPrefix(<<"t","e","s","t",":"," ","u","p","d","a","t","e"," ","m","o","c","k">>, <<"t","e","s","t","(","m","o","c","k",")",":"," ","u","p","d","a","t","e"," ","m","o","c","k">>, msg)))  \* 'test: update mock', 'test(mock): update mock'
  ELSE msg

\* lines 55-59
messages_chore(msg) ==
  IF StartsWith(msg, <<"c","h","o","r","e",":"," ">>) /\ ~Contains(msg, <<"(","c","o","n","f","i","g",")">>)  \* 'chore: ', '(config)'
  THEN IF Contains(msg, <<"m","a","n","i","f","e","s","t">>) THEN SubPrefix(<<"c","h","o","r","e",":">>, <<"c","h","o","r","e","(","m","a","n","i","f","e","s","t",")",":">>, msg)  \* 'manifest', 'chore:', 'chore(manifest):'
       ELSE SubPrefix(<<"c","h","o","r","e",":">>, <<"c","h","o","r","e","(","c","o","n","f","i","g",")",":">>, msg)  \* 'chore:', 'chore(config):'
  ELSE msg

\* lines 61-67
messages_fix(msg) ==
  IF StartsWith(msg, <<"f","i","x",":"," ">>) /\ ~Contains(msg, <<"(">>)  \* 'fix: ', '('
  THEN IF Contains(Lower(msg), <<"s","e","s","s","i","o","n">>) THEN SubPrefix(<<"f","i","x",":">>, <<"f","i","x","(","s","e","s","s","i","o","n",")",":">>, msg)  \* 'session', 'fix:', 'fix(session):'
       ELSE IF Contains(Lower(msg), <<"p","r","o","b","l","e","m">>) THEN SubPrefix(<<"f","i","x",":">>, <<"f","i","x","(","p","r","o","b","l","e","m",")",":">>, msg)  \* 'problem', 'fix:', 'fix(problem):'
       ELSE SubPrefix(<<"f","i","x",":">>, <<"f","i","x","(","c","o","r","e",")",":">>, msg)  \* 'fix:', 'fix(core):'
  ELSE msg

\* lines 69-73
messages_refactor_scope(msg) ==
  LET m1 == IF StartsWith(msg, <<"r","e","f","a","c","t","o","r",":"," ","e","x","t","r","a","c","t">>) /\ Contains(Lower(msg), <<"h","a","n","d","l","e","r">>)  \* 'refactor: extract', 'handler'
            THEN SubPrefix(<<"r","e","f","a","c","t","o","r",":">>, <<"r","e","f","a","c","t","o","r","(","h","a","n","d","l","e","r",")",":">>, msg) ELSE msg  \* 'refactor:', 'refactor(handler):'
  IN  IF StartsWith(m1, <<"r","e","f","a","c","t","o","r",":"," ","r","e","m","o","v","e">>)  \* 'refactor: remove'
      THEN SubPrefix(<<"r","e","f","a","c","t","o","r",":">>, <<"r","e","f","a","c","t","o","r","(","c","l","e","a","n","u","p",")",":">>, m1) ELSE m1  \* 'refactor:', 'refactor(cleanup):'

\* lines 76-77: clean up redundant text
messages_cleanup(msg) ==
  ReSub("batch_n_greedy", <<>>, ReSub("paren_phase", <<>>, msg))

messages_rewrite_message(msg) ==
  IF HasScope(MessagesTypes, msg) THEN Ret(msg, FALSE)
  ELSE LET m1 == messages_checkpoint(messages_refactor(msg))
       IN  IF StartsWith(m1, <<"W","I","P",":">>) THEN RetNone  \* 'WIP:'
           ELSE Ret(messages_cleanup(
                      messages_refactor_scope(
                        messages_fix(messages_chore(messages_test(m1))))), FALSE)

(***************************************************************************)
(* The subjects the scripts are run on: a head, which selects the kind of  *)
(* the subject, followed by at most MaxBody body fragments.                *)
(***************************************************************************)
Heads ==
  { <<>>, <<"f","e","a","t",":"," ">>, <<"f","i","x",":"," ">>, <<"r","e","f","a","c","t","o","r",":"," ">>, <<"t","e","s","t",":"," ">>, <<"c","h","o","r","e",":"," ">>, <<"p","e","r","f",":"," ">>,  \* '', 'feat: ', 'fix: ', 'refactor: ', 'test: ', 'chore: ', 'perf: '
    <<"W","I","P",":">>, <<"c","h","e","c","k","p","o","i","n","t",":">>, <<"M","e","r","g","e"," ","b","r","a","n","c","h">>, <<"M","e","r","g","e"," ","p","u","l","l"," ","r","e","q","u","e","s","t">>,  \* 'WIP:', 'checkpoint:', 'Merge branch', 'Merge pull request'
    <<"f","i","x","(","s","e","s","s","i","o","n",")",":">>, <<"R","e","v","e","r","t"," ","\"">>, <<"d","e","b","u","g",":">> }  \* 'fix(session):', 'Revert "', 'debug:'

BodyFrags ==
  { <<"a","d","d"," ","s","e","s","s","i","o","n"," ","U","I">>, <<"u","p","d","a","t","e"," ","m","o","c","k"," ","t","e","s","t","s">>, <<"r","e","d","u","c","e"," ","c","o","m","p","l","e","x","i","t","y"," ","i","n"," ","f","o","o">>,  \* 'add session UI', 'update mock tests', 'reduce complexity in foo'
    <<"e","x","t","r","a","c","t"," ","h","e","l","p","e","r","s"," ","f","r","o","m"," ","b","a","c","k","g","r","o","u","n","d","/","i","n","d","e","x",".","j","s">>, <<" ","a","n","d"," ","m","o","r","e">>, <<"\"">>,  \* 'extract helpers from background/index.js', ' and more', '"'
    <<" ","(","b","a","t","c","h"," ","3","/","1","0",")">>, <<" ","(","b","a","t","c","h"," ","1","/","n"," ","u","i"," ","w","o","r","k",")">>, <<" ","(","P","h","a","s","e"," ","1",")">>,  \* ' (batch 3/10)', ' (batch 1/n ui work)', ' (Phase 1)'
    <<" ","-"," ","P","h","a","s","e"," ","2"," ","s","e","s","s","i","o","n"," ","c","l","e","a","n","u","p">>, <<" ","c","h","e","c","k","p","o","i","n","t",":"," ","l","i","n","t">>, <<" ","W","I","P",":"," ","r","e","m","o","v","e"," ","h","a","n","d","l","e","r">> }  \* ' - Phase 2 session cleanup', ' checkpoint: lint', ' WIP: remove handler'

RECURSIVE Concats(_, _)
Concats(frags, n) ==
  IF n = 0 THEN {<<>>}
  ELSE LET shorter == Concats(frags, n - 1)
       IN  shorter \cup {b \o f : b \in shorter, f \in frags}

Subjects == {h \o b : h \in Heads, b \in Concats(BodyFrags, MaxBody)}

\* what main prints: the count of its first line, the entries it lists and
\* the count of its '... and N more' line (0 when the line is not printed)
NoReport == [found |-> 0, listing |-> <<>>, more |-> 0]

\* the batch driver is not run
DriverIdle ==
  /\ commits = <<>>
  /\ lines = <<>>
  /\ pos = 0
  /\ rewrites = <<>>
  /\ report = NoReport
  /\ pc = "idle"

Init ==
  /\ orig \in Subjects
  /\ subject = orig
  /\ fn = "none"
  /\ round = 0
  /\ ret = NoRet
  /\ DriverIdle

\* batch_rewrite.rewrite_message(subject)
BatchRewrite ==
  /\ round = 0
  /\ fn' = "batch_rewrite"
  /\ round' = 1
  /\ ret' = batch_rewrite_message(subject)
  /\ UNCHANGED <<orig, subject, driver>>

\* batch_rewrite.rewrite_message applied to the subject it returned
BatchRewriteAgain ==
  /\ round = 1
  /\ fn = "batch_rewrite"
  /\ ~ret.raised
  /\ subject' = ret.new
  /\ round' = 2
  /\ ret' = batch_rewrite_message(ret.new)
  /\ UNCHANGED <<orig, fn, driver>>

\* msg_filter.rewrite_message(subject)
FilterRewrite ==
  /\ round = 0
  /\ fn' = "msg_filter"
  /\ round' = 1
  /\ ret' = filter_rewrite_message(subject)
  /\ UNCHANGED <<orig, subject, driver>>

\* msg_filter.rewrite_message applied to the subject it returned
FilterRewriteAgain ==
  /\ round = 1
  /\ fn = "msg_filter"
  /\ subject' = ret.new
  /\ round' = 2
  /\ ret' = filter_rewrite_message(ret.new)
  /\ UNCHANGED <<orig, fn, driver>>

\* rewrite_messages.rewrite_message(subject)
MessagesRewrite ==
  /\ round = 0
  /\ fn' = "rewrite_messages"
  /\ round' = 1
  /\ ret' = messages_rewrite_message(subject)
  /\ UNCHANGED <<orig, subject, driver>>

\* rewrite_messages.rewrite_message applied to the subject it returned
MessagesRewriteAgain ==
  /\ round = 1
  /\ fn = "rewrite_messages"
  /\ ~ret.none
  /\ subject' = ret.new
  /\ round' = 2
  /\ ret' = messages_rewrite_message(ret.new)
  /\ UNCHANGED <<orig, fn, driver>>

\* batch_rewrite.get_scope_from_message(subject)
BatchScope ==
  /\ round = 0
  /\ fn' = "batch_scope"
  /\ round' = 1
  /\ ret' = Ret(batch_get_scope_from_message(subject), FALSE)
  /\ UNCHANGED <<orig, subject, driver>>

\* msg_filter.get_scope_from_message(subject)
FilterScope ==
  /\ round = 0
  /\ fn' = "filter_scope"
  /\ round' = 1
  /\ ret' = Ret(filter_get_scope_from_message(subject), FALSE)
  /\ UNCHANGED <<orig, subject, driver>>

Next ==
  \/ BatchRewrite
  \/ BatchRewriteAgain
  \/ FilterRewrite
  \/ FilterRewriteAgain
  \/ MessagesRewrite
  \/ MessagesRewriteAgain
  \/ BatchScope
  \/ FilterScope

Spec == Init /\ [][Next]_vars

(***************************************************************************)
(* The noise stripper on its own: the descriptions are built from marker   *)
(* pieces, so that removing one marker can join its neighbours.            *)
(***************************************************************************)
\* Largest number of pieces in a description handed to the noise stripper.
MaxPieces == 3

Pieces ==
  { <<"t","i","d","y">>, <<" ","(","b","a","t","c","h">>, <<" ","1","/","2",")">>, <<" ","(","b","a","t","c","h"," ","3","/","1","0",")">>, <<" ","(","b","a","t","c","h"," ","1","/","n">>, <<")">>,  \* 'tidy', ' (batch', ' 1/2)', ' (batch 3/10)', ' (batch 1/n', ')'
    <<" ","(","P","h","a","s","e"," ","1",")">>, <<" ","-"," ","P","h","a","s","e"," ","2">>, <<"r","e","d","u","c","e"," ","c","o","m","p","l","e","x","i","t","y"," ","i","n"," ","f","o","o">> }  \* ' (Phase 1)', ' - Phase 2', 'reduce complexity in foo'

Descriptions == Concats(Pieces, MaxPieces) \ {<<>>}

InitStrip ==
  /\ orig \in Descriptions
  /\ subject = orig
  /\ fn = "none"
  /\ round = 0
  /\ ret = NoRet
  /\ DriverIdle

\* lines 92-104 of batch_rewrite.py on the description
StripNoise ==
  /\ round = 0
  /\ fn' = "strip_noise"
  /\ round' = 1
  /\ LET r == batch_strip_noise(subject)
     IN  ret' = IF r.raised THEN RetRaised ELSE Ret(r.text, FALSE)
  /\ UNCHANGED <<orig, subject, driver>>

\* the same lines on the description they produced
StripNoiseAgain ==
  /\ round = 1
  /\ fn = "strip_noise"
  /\ ~ret.raised
  /\ subject' = ret.new
  /\ round' = 2
  /\ LET r == batch_strip_noise(ret.new)
     IN  ret' = IF r.raised THEN RetRaised ELSE Ret(r.text, FALSE)
  /\ UNCHANGED <<orig, fn, driver>>

NextStrip ==
  \/ StripNoise
  \/ StripNoiseAgain

SpecStrip == InitStrip /\ [][NextStrip]_vars

(***************************************************************************)
(* The batch driver of batch_rewrite.py: process_batch and main.  git log  *)
(* prints one line '<hash>|<subject>' per commit of the range.             *)
(***************************************************************************)
\* Largest number of commits in the range.
MaxCommits == 22

\* Number of leading commits whose subjects are drawn freely.
MaxSeed == 3

\* line 145: main lists the first 20 entries
ListingCap == 20

\* line 146: main prints the first 7 characters of a hash
HashShown == 7

DigitChars == <<"0","1","2","3","4","5","6","7","8","9">>

\* the hash of the i-th commit of the range
HashOf(i) == <<"a","1","b","2","c">> \o <<DigitChars[(i \div 10) + 1], DigitChars[(i % 10) + 1]>> \o <<"9","f">>  \* 'a1b2c', '9f'

\* subjects as %s prints them: one line, no trailing whitespace
DriverSubjects == { <<"W","I","P",":">>, <<"f","i","x",":"," ","a","d","d">>, <<"M","e","r","g","e"," ","b","r","a","n","c","h">>, <<>> }  \* 'WIP:', 'fix: add', 'Merge branch', ''

\* the first n commits of a range whose subjects are those of the seed, the
\* last one repeated to the end
RECURSIVE RangeOf(_, _)
RangeOf(n, seed) ==
  IF n = 0 THEN <<>>
  ELSE Append(RangeOf(n - 1, seed),
              [hash |-> HashOf(n), subject |-> seed[IF n < MaxSeed THEN n ELSE MaxSeed]])

\* the ranges: up to MaxCommits commits, the subjects drawn by a seed
CommitRanges ==
  { RangeOf(n, seed) : n \in 0..MaxCommits, seed \in [1..MaxSeed -> DriverSubjects] }

\* line 115: the output of git log --format=%H|%s for the range
RECURSIVE git_log(_, _)
git_log(range, i) ==
  IF i > Len(range) THEN <<>>
  ELSE range[i].hash \o <<"|">> \o range[i].subject \o <<"\n">> \o git_log(range, i + 1)  \* '|'

\* str.split('\n')
RECURSIVE SplitLines(_)
SplitLines(s) ==
  LET at == IndexFrom(s, 1, "\n")
  IN  IF at = 0 THEN <<s>>
      ELSE <<SubSeq(s, 1, at - 1)>> \o SplitLines(From(s, at + 1))

\* line 121: line.split('|', 1) has two parts
has_bar(line) == IndexFrom(line, 1, "|") > 0

\* line 121: hash_val, the part before the first '|'
hash_of_line(line) == SubSeq(line, 1, IndexFrom(line, 1, "|") - 1)

\* line 121: msg, the part after the first '|'
msg_of_line(line) == From(line, IndexFrom(line, 1, "|") + 1)

\* lines 124-129 with every commit appended, changed or not
collect_all(list, hash_val, msg, new_msg, changed) ==
  Append(list, [hash |-> hash_val, old |-> msg, new |-> new_msg])

\* lines 124-129: the commit is appended when its subject changed
collect(list, hash_val, msg, new_msg, changed) ==
  IF changed THEN Append(list, [hash |-> hash_val, old |-> msg, new |-> new_msg])
  ELSE list

\* s[:n]
Take(s, n) == SubSeq(s, 1, IF Len(s) < n THEN Len(s) ELSE n)

\* lines 143-152: what main prints from the list of process_batch
main_report(list) ==
  [found   |-> Len(list),
   listing |-> [k \in 1..Len(Take(list, ListingCap)) |->
                  [hash |-> Take(list[k].hash, HashShown),
                   old  |-> list[k].old,
                   new  |-> list[k].new]],
   more    |-> IF Len(list) > ListingCap THEN Len(list) - ListingCap ELSE 0]

InitDriver ==
  /\ orig = <<>>
  /\ subject = <<>>
  /\ fn = "none"
  /\ round = 0
  /\ ret = NoRet
  /\ commits \in CommitRanges
  /\ lines = <<>>
  /\ pos = 0
  /\ rewrites = <<>>
  /\ report = NoReport
  /\ pc = "git_log"

\* lines 114-118: run git log, split its stripped output into lines
GitLog ==
  /\ pc = "git_log"
  /\ lines' = SplitLines(Strip(git_log(commits, 1)))
  /\ pos' = 1
  /\ pc' = "loop"
  /\ UNCHANGED <<orig, subject, fn, round, ret, commits, rewrites, report>>

\* lines 118-122: the next line of the output: an empty line is skipped, a
\* line without '|' makes the unpacking raise, otherwise its subject is
\* handed to rewrite_message
RewriteLine ==
  /\ pc = "loop"
  /\ pos <= Len(lines)
  /\ LET line == lines[pos]
     IN  /\ pc' = IF line = <<>> THEN "loop"
                  ELSE IF ~has_bar(line) THEN "raised" ELSE "rewritten"
         /\ pos' = IF line = <<>> THEN pos + 1 ELSE pos
         /\ subject' = IF line # <<>> /\ has_bar(line) THEN msg_of_line(line) ELSE subject
         /\ ret' = IF line # <<>> /\ has_bar(line)
                   THEN batch_rewrite_message(msg_of_line(line)) ELSE ret
  /\ UNCHANGED <<orig, fn, round, commits, lines, rewrites, report>>

\* lines 124-129: the rewritten subject is collected, the loop goes on
CollectLine ==
  /\ pc = "rewritten"
  /\ pc' = IF ret.raised THEN "raised" ELSE "loop"
  /\ rewrites' = IF ret.raised THEN rewrites
                 ELSE collect(rewrites, hash_of_line(lines[pos]), subject, ret.new, ret.changed)
  /\ pos' = pos + 1
  /\ UNCHANGED <<orig, subject, fn, round, ret, commits, lines, report>>

\* lines 131 and 141-152: process_batch returns, main prints the report
MainPrint ==
  /\ pc = "loop"
  /\ pos > Len(lines)
  /\ report' = main_report(rewrites)
  /\ pc' = "done"
  /\ UNCHANGED <<orig, subject, fn, round, ret, commits, lines, pos, rewrites>>

NextDriver ==
  \/ GitLog
  \/ RewriteLine
  \/ CollectLine
  \/ MainPrint

SpecDriver == InitDriver /\ [][NextDriver]_vars

(***************************************************************************)
(* The properties of the engine.                                           *)
(***************************************************************************)
IsBatchCall == fn = "batch_rewrite" /\ round >= 1

\* C1: batch_rewrite.rewrite_message is idempotent: applied to the subject
\* it returned, it returns that subject again, with changed = False.
C1_BatchIdempotent ==
  (fn = "batch_rewrite" /\ round = 2) =>
    (~ret.raised /\ ~ret.none /\ ret.new = subject /\ ret.changed = FALSE)

\* C1 witness: the second call on the output of a 'type: description' subject
\* whose description was changed by the noise stripping.
C1_Witness ==
  /\ fn = "batch_rewrite" /\ round = 2
  /\ TypeOf(PrimaryTypes, orig) # <<>>
  /\ batch_strip_noise(DescriptionOf(PrimaryTypes, orig)).text
       # DescriptionOf(PrimaryTypes, orig)
  /\ subject # orig

\* C2: rewrite_messages.rewrite_message is idempotent on every subject that
\* does not start with 'WIP:': applied to its own output it returns that
\* output unchanged.
C2_MessagesIdempotent ==
  (fn = "rewrite_messages" /\ round = 2 /\ ~StartsWith(orig, <<"W","I","P",":">>)) =>  \* 'WIP:'
    (~ret.none /\ ~ret.raised /\ ret.new = subject)

\* C3: each of the three rewrite_message variants returns a subject string
\* for every input: it never raises and never returns an absent value.
C3_Totality ==
  (round = 1 /\ fn \in {"batch_rewrite", "msg_filter", "rewrite_messages"}) =>
    (~ret.raised /\ ~ret.none)

\* C4: the flag batch_rewrite.rewrite_message returns is True exactly when
\* the subject it returns differs from the subject it was given.
C4_ChangedIffDiffers ==
  IsBatchCall => (~ret.raised /\ (ret.changed <=> ret.new # subject))

\* C4 witness: a path with a hard-coded flag that changes the subject.
C4_Witness ==
  /\ IsBatchCall
  /\ StartsWith(subject, <<"W","I","P",":">>)  \* 'WIP:'
  /\ ret.changed
  /\ ret.new # subject

\* C5: both scope classifiers give 'test-mock' for every text that contains
\* both 'mock' and 'test'.
C5_MockBeforeTest ==
  (round = 1 /\ fn \in {"batch_scope", "filter_scope"}
     /\ Contains(subject, <<"m","o","c","k">>) /\ Contains(subject, <<"t","e","s","t">>)) =>  \* 'mock', 'test'
    ret.new = <<"t","e","s","t","-","m","o","c","k">>  \* 'test-mock'

\* C6: for a subject 'checkpoint:' + r, batch_rewrite.rewrite_message returns
\* 'chore(<scope of the full subject>):' + r with changed = True, r verbatim.
C6_CheckpointVerbatim ==
  (IsBatchCall /\ StartsWith(subject, <<"c","h","e","c","k","p","o","i","n","t",":">>)) =>  \* 'checkpoint:'
    /\ ret.changed
    /\ ret.new = <<"c","h","o","r","e","(">> \o batch_get_scope_from_message(subject) \o <<")",":">>  \* 'chore(', '):'
                   \o From(subject, 12)

\* the subject is 'type: description' for a primary type
IsTyped(s) == \E t \in PrimaryTypes : StartsWith(s, t \o <<":"," ">>) /\ Len(s) > Len(t) + 2  \* ': '

\* C7 as stated: a 'type: description' subject becomes 'type(scope): d' with
\* scope classified from the description and d the description with its
\* batch/phase markers removed.
C7_TypedMarkersOnly ==
  (IsBatchCall /\ IsTyped(subject)) =>
    \E t \in PrimaryTypes :
      /\ StartsWith(subject, t \o <<":"," ">>)  \* ': '
      /\ LET description == From(subject, Len(t) + 3)
         IN  ret.new = t \o <<"(">> \o batch_get_scope_from_message(description) \o <<")",":"," ">>  \* '(', '): '
                         \o batch_strip_markers(description)

\* C7 amended: d is the description after the whole noise stripper: the four
\* marker substitutions, then the two boilerplate collapses.
C7_TypedNoiseStripped ==
  (IsBatchCall /\ IsTyped(subject)) =>
    \E t \in PrimaryTypes :
      /\ StartsWith(subject, t \o <<":"," ">>)  \* ': '
      /\ LET description == From(subject, Len(t) + 3)
         IN  /\ ~ret.raised
             /\ ret.new = t \o <<"(">> \o batch_get_scope_from_message(description) \o <<")",":"," ">>  \* '(', '): '
                            \o batch_simplify(batch_strip_markers(description)).text

\* C7 witness: the example of the specification.
C7_Witness ==
  /\ IsBatchCall
  /\ subject = <<"f","e","a","t",":"," ","a","d","d"," ","s","e","s","s","i","o","n"," ","U","I"," ","(","b","a","t","c","h"," ","3","/","1","0",")">>  \* 'feat: add session UI (batch 3/10)'
  /\ ret.new = <<"f","e","a","t","(","s","e","s","s","i","o","n",")",":"," ","a","d","d"," ","s","e","s","s","i","o","n"," ","U","I">>  \* 'feat(session): add session UI'

\* C8: the noise stripper is idempotent: stripping the stripped description
\* again changes nothing.
C8_StripIdempotent ==
  (fn = "strip_noise" /\ round = 2) => (~ret.raised /\ ret.new = subject)

\* C9: a subject that starts with 'Merge branch' or 'Merge pull request' is
\* returned as it is by batch_rewrite.rewrite_message, with changed = False.
C9_MergePassThrough ==
  (IsBatchCall /\ (StartsWith(subject, <<"M","e","r","g","e"," ","b","r","a","n","c","h">>)  \* 'Merge branch'
                     \/ StartsWith(subject, <<"M","e","r","g","e"," ","p","u","l","l"," ","r","e","q","u","e","s","t">>))) =>  \* 'Merge pull request'
    ret = Ret(subject, FALSE)

\* C9 witness: a merge subject followed by 'WIP:' text and a batch marker.
C9_Witness ==
  /\ IsBatchCall
  /\ subject = <<"M","e","r","g","e"," ","b","r","a","n","c","h"," ","W","I","P",":"," ","r","e","m","o","v","e"," ","h","a","n","d","l","e","r"," ","(","b","a","t","c","h"," ","3","/","1","0",")">>  \* 'Merge branch WIP: remove handler (batch 3/10)'
  /\ ret.new = subject

\* C10: a subject 'type(scope): ...' with a primary type and a non-empty
\* scope without ')' is returned as it is by batch_rewrite.rewrite_message,
\* with changed = False.
C10_AlreadyCanonical ==
  (IsBatchCall /\ HasScope(PrimaryTypes, subject)) => ret = Ret(subject, FALSE)

\* C10 witness: an already scoped subject whose text holds a batch marker
\* and a boilerplate phrasing, given as input.
C10_Witness ==
  /\ IsBatchCall /\ round = 1
  /\ subject = <<"f","i","x","(","s","e","s","s","i","o","n",")",":","r","e","d","u","c","e"," ","c","o","m","p","l","e","x","i","t","y"," ","i","n"," ","f","o","o"," ","(","b","a","t","c","h"," ","3","/","1","0",")">>  \* 'fix(session):reduce complexity in foo (batch 3/10)'
  /\ ret.new = subject

\* the records of the range whose subject batch_rewrite.rewrite_message
\* changes, in the order of the range, each with its new subject
RECURSIVE ChangedRecords(_, _)
ChangedRecords(range, n) ==
  IF n = 0 THEN <<>>
  ELSE LET r == batch_rewrite_message(range[n].subject)
       IN  IF r.changed
           THEN Append(ChangedRecords(range, n - 1),
                       [hash |-> range[n].hash, old |-> range[n].subject, new |-> r.new])
           ELSE ChangedRecords(range, n - 1)

\* the entry as main shows it: the identifier cut for display
Shown(e) == [hash |-> SubSeq(e.hash, 1, HashShown), old |-> e.old, new |-> e.new]

FilterKinds(msg) ==
  LET hit == {k \in {"already-canonical", "merge", "revert", "work-in-progress",
                     "checkpoint", "bare-typed", "conventional-untagged"} :
                CASE k = "already-canonical" -> filter_is_scoped(msg)
                  [] k = "merge" -> filter_is_merge(msg)
                  [] k = "revert" -> filter_is_revert(msg)
                  [] k = "work-in-progress" -> filter_is_wip(msg)
                  [] k = "checkpoint" -> filter_is_checkpoint(msg)
                  [] k = "bare-typed" -> filter_bare_hits(msg) # {}
                  [] OTHER -> filter_is_typed(msg)}
  IN  IF hit = {} THEN {"unrecognized"} ELSE hit

\* the rewrite rule of a kind, applied to the subject
FilterRule(k, msg) ==
  CASE k = "revert" -> filter_revert(msg)
    [] k = "work-in-progress" -> filter_wip(msg)
    [] k = "checkpoint" -> filter_checkpoint(msg)
    [] k = "bare-typed" -> filter_bare(msg, BarePrefixes[Min(filter_bare_hits(msg))])
    [] k = "conventional-untagged" -> filter_typed(msg)
    [] OTHER -> msg

\* C12: for every subject exactly one detection condition of
\* msg_filter.rewrite_message holds, so the subject returned is the rewrite
\* of that one kind whatever the order of the tests.
C12_OneKindPerSubject ==
  (fn = "msg_filter" /\ round >= 1) =>
    /\ Cardinality(FilterKinds(subject)) = 1
    /\ \A k \in FilterKinds(subject) : ret.new = FilterRule(k, subject)

\* C12 witness: a merge subject that holds the marker of another kind.
C12_Witness ==
  /\ fn = "msg_filter" /\ round = 1
  /\ subject = <<"M","e","r","g","e"," ","b","r","a","n","c","h"," ","W","I","P",":"," ","r","e","m","o","v","e"," ","h","a","n","d","l","e","r">>  \* 'Merge branch WIP: remove handler'
  /\ FilterKinds(subject) = {"merge"}
  /\ ret.new = subject

\* the scope of a subject 'type(scope): description'
ScopeIn(s) == SubSeq(s, IndexFrom(s, 1, "(") + 1, IndexFrom(s, 1, ")") - 1)

\* the description of a subject 'type(scope): description'
DescriptionIn(s) == From(s, IndexFrom(s, 1, ")") + 3)

\* C13 as stated: the scope batch_rewrite.rewrite_message puts in a rewritten
\* 'type: description' subject is the classifier's result on the output's own
\* noise-stripped description.
C13_ScopeFromKeptText ==
  (IsBatchCall /\ IsTyped(subject)) =>
    ScopeIn(ret.new) = batch_get_scope_from_message(DescriptionIn(ret.new))

\* C13 amended: the scope in the output is the classifier's result on the
\* description as given, before the noise is stripped.
C13_ScopeFromGivenText ==
  (IsBatchCall /\ IsTyped(subject)) =>
    /\ HasScope(PrimaryTypes, ret.new)
    /\ ScopeIn(ret.new)
         = batch_get_scope_from_message(DescriptionOf(PrimaryTypes, subject))

\* C13 witness: the only scope keyword stands inside a removed batch marker.
C13_Witness ==
  /\ IsBatchCall
  /\ subject = <<"f","i","x",":"," ","r","e","d","u","c","e"," ","c","o","m","p","l","e","x","i","t","y"," ","i","n"," ","f","o","o"," ","(","b","a","t","c","h"," ","1","/","n"," ","u","i"," ","w","o","r","k",")">>  \* 'fix: reduce complexity in foo (batch 1/n ui work)'
  /\ ret.new = <<"f","i","x","(","u","i",")",":"," ","r","e","d","u","c","e"," ","c","o","m","p","l","e","x","i","t","y"," ","i","n"," ","f","o","o">>  \* 'fix(ui): reduce complexity in foo'

====
